---- MODULE Spec2Model ----
(***************************************************************************)
(* RHUI (src/RotorHazardRun/src/server/RHUI.py): the state-broadcast and   *)
(* UI-extension layer of the race-timing server.                           *)
(*                                                                         *)
(* The wire (sent), the event bus (events) and the log (logged) are the    *)
(* observable outputs of the emit_* operations; tasks are the greenlets    *)
(* spawned by emit_result_data; the three registries are the lists held    *)
(* by the RHUI instance.                                                   *)
(***************************************************************************)
EXTENDS Integers, Sequences, FiniteSets, TLC

\* Session ids (request.sid) the transport may hand out.
Sessions == {"s1", "s2"}

\* No request context: `request` is falsy, there is no request.sid.
NoCaller == "none"

\* The **params flags the emit_* operations look at.
FlagSets == SUBSET {"nobroadcast", "noself"}

\* The flags the offloaded topic and race_status look at ('noself' is not one).
OffloadFlagSets == SUBSET {"nobroadcast"}

\* Node indices passed to emit_first_pass_registered.
Nodes == {0, 1}

\* Values of the `caller` argument of emit_priority_message (default False).
CallerArgs == {"False", "ui"}

\* Outcomes of one run of the deferred task body.
Outcomes == {"ok", "read_fail", "send_fail"}

\* Number of emit_* calls explored in the synchronous dispatch specification.
MaxCalls == 1

\* Number of emit_* calls explored in the offload specification.
MaxOffloadCalls == 2

\* Number of register_* calls explored in the registry specification.
MaxRegistrations == 3

\* Number of node rows of the heat explored in the heat specification.
MaxHeatNodes == 3

\* Number of entries of the frequency profile in the IMDTabler specification.
MaxProfileLen == 4

\* Number of pilots in the database in the pilot specification.
MaxPilots == 3

VARIABLES
  active,            \* sessions connected right now (owned by the transport)
  closed,            \* sessions that have disconnected (a sid is never reused)
  history,           \* the emit_* calls made so far, in program order
  sent,              \* the wire: messages in the order they were sent
  events,            \* the domain events triggered, in order
  tasks,             \* greenlets spawned by emit_result_data, in spawn order
  logged,            \* exceptions written to the log by the wrapper
  pilot_attributes,  \* self._pilot_attributes
  ui_panels,         \* self._ui_panels
  general_settings,  \* self._general_settings
  regLog,            \* the register_* calls made so far, in call order
  returned,          \* the value returned by the latest register_* call
  panelQuery,        \* the latest get_panel_settings call and what it returned
  heatNodes,         \* get_heatNodes_by_heat(heat.id): node_index of each slot
  slots,             \* current_heat['slots'] of the heat_data payload
  profile_freqs,     \* race.profile.frequencies['f'], one frequency per node
  num_nodes,         \* race.num_nodes
  invocations,       \* the runs of the IMDTabler jar, in order
  pilots,            \* rhdata.get_pilots(), in row order
  pilotSort,         \* rhdata.get_option('pilotSort')
  pilots_list,       \* the pilots list of the latest pilot_data payload
  current_heat,      \* race.current_heat
  heats,             \* the heat ids rhdata.get_heat finds a record for
  savedPilotRaces    \* rhdata.get_savedPilotRaces_by_savedRaceMeta(race.id)

transportVars == <<active, closed>>
dispatchVars == <<history, sent, events>>
offloadVars == <<tasks, logged>>
registryVars ==
  <<pilot_attributes, ui_panels, general_settings, regLog, returned, panelQuery>>
heatVars == <<heatNodes, slots>>
imdVars == <<profile_freqs, num_nodes, invocations>>
pilotVars == <<pilots, pilotSort, pilots_list>>
raceVars == <<current_heat, heats, savedPilotRaces>>
builderVars == <<heatVars, imdVars, pilotVars, raceVars>>
vars == <<transportVars, dispatchVars, offloadVars, registryVars, builderVars>>

\* No get_panel_settings call has been made.
NoQuery == [name |-> "", result |-> <<>>, settings |-> <<>>]

\* No heat in the database.
HeatIdle ==
  /\ heatNodes = <<>>
  /\ slots = <<>>

\* An empty frequency profile, and the jar never run.
ImdIdle ==
  /\ profile_freqs = <<>>
  /\ num_nodes = 0
  /\ invocations = <<>>

\* No pilot in the database.
PilotIdle ==
  /\ pilots = <<>>
  /\ pilotSort = "name"
  /\ pilots_list = <<>>

\* Practice mode, no heat and no saved race in the database.
RaceIdle ==
  /\ current_heat = "HEAT_ID_NONE"
  /\ heats = {}
  /\ savedPilotRaces = <<>>

\* No payload is being built.
BuilderIdle ==
  /\ HeatIdle
  /\ ImdIdle
  /\ PilotIdle
  /\ RaceIdle

----------------------------------------------------------------------------
(* The transport (flask_socketio), as this class uses it.                  *)

\* self._socket.emit(topic, payload): every connected session.
SocketEmit(act) == act

\* emit(topic, payload) inside a request: the room of request.sid.
EmitToCaller(act, c) == act \cap {c}

\* emit(topic, payload, broadcast=True, include_self=False).
EmitBroadcastNoSelf(act, c) == act \ {c}

\* emit(topic, payload, namespace='/', room=sid): the room of sid.
EmitToRoom(act, sid) == act \cap {sid}

\* flask_socketio.emit reads flask.request: outside a request it raises.
EmitRaises(c) == c = NoCaller

\* The callers an operation can have: a connected session, or no request.
CallersNow == active \cup {NoCaller}

Message(topic, to, payload, call) ==
  [topic |-> topic, to |-> to, payload |-> payload, call |-> call, act |-> active]

Call(op, c, flags, node, interrupt, raised) ==
  [op |-> op, caller |-> c, flags |-> flags, node |-> node,
   interrupt |-> interrupt, raised |-> raised]

\* A call of a snapshot builder: also the pilot it was asked about and how
\* the reads of its builds ended.
SnapshotCall(op, c, flags, raised, pilot_id, build) ==
  [op |-> op, caller |-> c, flags |-> flags, node |-> 0, interrupt |-> FALSE,
   raised |-> raised, pilot_id |-> pilot_id, build |-> build]

\* The messages and events one call put on the wire / the bus.
SentBy(i) == SelectSeq(sent, LAMBDA m : m.call = i)
EventsBy(i) == SelectSeq(events, LAMBDA e : e.call = i)

Init ==
  /\ active = {}
  /\ closed = {}
  /\ history = <<>>
  /\ sent = <<>>
  /\ events = <<>>
  /\ tasks = <<>>
  /\ logged = <<>>
  /\ pilot_attributes = <<>>
  /\ ui_panels = <<>>
  /\ general_settings = <<>>
  /\ regLog = <<>>
  /\ returned = <<>>
  /\ panelQuery = NoQuery
  /\ BuilderIdle

\* Every session connected, nothing called yet, nothing registered.
ConnectedInit ==
  /\ active = Sessions
  /\ closed = {}
  /\ history = <<>>
  /\ sent = <<>>
  /\ events = <<>>
  /\ tasks = <<>>
  /\ logged = <<>>
  /\ pilot_attributes = <<>>
  /\ ui_panels = <<>>
  /\ general_settings = <<>>
  /\ regLog = <<>>
  /\ returned = <<>>
  /\ panelQuery = NoQuery

\* A client connects: the transport adds a fresh sid.
Connect(s) ==
  /\ s \notin active
  /\ s \notin closed
  /\ active' = active \cup {s}
  /\ UNCHANGED <<closed, dispatchVars, offloadVars, registryVars, builderVars>>

\* A client disconnects: its sid is gone for good.
Disconnect(s) ==
  /\ s \in active
  /\ active' = active \ {s}
  /\ closed' = closed \cup {s}
  /\ UNCHANGED <<dispatchVars, offloadVars, registryVars, builderVars>>

----------------------------------------------------------------------------
(* Topics with both addressing overrides.                                  *)

\* A variant of HeatDataTarget whose elif branch is missing.
HeatDataTarget_NoElif(flags, c, act) ==
  IF "nobroadcast" \in flags THEN EmitToCaller(act, c) ELSE SocketEmit(act)

\* The if / elif / else that ends emit_heat_data.
HeatDataTarget(flags, c, act) ==
  IF "nobroadcast" \in flags THEN EmitToCaller(act, c)
  ELSE IF "noself" \in flags THEN EmitBroadcastNoSelf(act, c)
  ELSE SocketEmit(act)

HeatDataRaises(flags, c) ==
  ("nobroadcast" \in flags \/ "noself" \in flags) /\ EmitRaises(c)

ClassDataTarget(flags, c, act) ==
  IF "nobroadcast" \in flags THEN EmitToCaller(act, c)
  ELSE IF "noself" \in flags THEN EmitBroadcastNoSelf(act, c)
  ELSE SocketEmit(act)

ClassDataRaises(flags, c) ==
  ("nobroadcast" \in flags \/ "noself" \in flags) /\ EmitRaises(c)

FormatDataTarget(flags, c, act) ==
  IF "nobroadcast" \in flags THEN EmitToCaller(act, c)
  ELSE IF "noself" \in flags THEN EmitBroadcastNoSelf(act, c)
  ELSE SocketEmit(act)

FormatDataRaises(flags, c) ==
  ("nobroadcast" \in flags \/ "noself" \in flags) /\ EmitRaises(c)

PilotDataTarget(flags, c, act) ==
  IF "nobroadcast" \in flags THEN EmitToCaller(act, c)
  ELSE IF "noself" \in flags THEN EmitBroadcastNoSelf(act, c)
  ELSE SocketEmit(act)

PilotDataRaises(flags, c) ==
  ("nobroadcast" \in flags \/ "noself" \in flags) /\ EmitRaises(c)

----------------------------------------------------------------------------
(* The slots of a heat in the heat_data payload.                           *)

\* An optional node index: None is the empty tuple, index n the tuple <<n>>.
None == <<>>
HeatNodeIndexes == 0..2
NodeIndexChoices == {None} \cup {<<n>> : n \in HeatNodeIndexes}

\* The key function handed to heatNodes.sort: `not x.node_index` is true for
\* None and for index 0.
heatNodeSorter(x) ==
  IF x.node_index = None \/ x.node_index = <<0>> THEN -1 ELSE x.node_index[1]

\* list.sort is stable: an element goes behind every element already placed
\* whose key is not greater than its own.
RECURSIVE SortHeatNodes(_, _, _)
SortHeatNodes(nodes, k, sorted) ==
  IF k > Len(nodes) THEN sorted
  ELSE LET x == nodes[k]
           p == Cardinality({j \in 1..Len(sorted) :
                              heatNodeSorter(sorted[j]) <= heatNodeSorter(x)})
       IN SortHeatNodes(nodes, k + 1,
            SubSeq(sorted, 1, p) \o <<x>> \o SubSeq(sorted, p + 1, Len(sorted)))

\* current_heat['slots']: one slot per heat node, in sorted order.
HeatSlots(nodes) == SortHeatNodes(nodes, 1, <<>>)

\* The rows get_heatNodes_by_heat returns for index choices s, in row order.
\* Row k seats pilot k.
HeatNodeRows(s) == [k \in 1..Len(s) |-> [id |-> k, node_index |-> s[k], pilot_id |-> k]]

\* The heats the database can hold: up to MaxHeatNodes rows, no real node
\* index used twice.
HeatNodeLists ==
  {HeatNodeRows(s) : s \in
     {t \in UNION {[1..n -> NodeIndexChoices] : n \in 0..MaxHeatNodes} :
        \A a, b \in 1..Len(t) : (a # b /\ t[a] # None) => t[a] # t[b]}}

----------------------------------------------------------------------------
(* The pilots list of the pilot_data payload.                              *)

Callsigns == {"ace", "bob"}
PilotNames == {"ann", "bo"}
PilotSorts == {"callsign", "name"}

\* Where a string stands in Python's string order.
StrRank(t) ==
  CASE t = "ace" -> 1
    [] t = "ann" -> 2
    [] t = "bo" -> 3
    [] t = "bob" -> 4

\* pilot_data as far as the sort looks at it.
PilotData(pilot) ==
  [pilot_id |-> pilot.id, callsign |-> pilot.callsign, name |-> pilot.name]

\* A variant of PilotSortKey that compares the first key only.
PilotSortKey_PrimaryOnly(x, sortOption) ==
  IF sortOption = "callsign" THEN <<StrRank(x.callsign), 0>>
  ELSE <<StrRank(x.name), 0>>

\* The key the sort is given: (callsign, name) when pilotSort is 'callsign',
\* (name, callsign) otherwise.
PilotSortKey(x, sortOption) ==
  IF sortOption = "callsign" THEN <<StrRank(x.callsign), StrRank(x.name)>>
  ELSE <<StrRank(x.name), StrRank(x.callsign)>>

\* Python's tuple comparison, a <= b.
TupleLeq(a, b) == a[1] < b[1] \/ (a[1] = b[1] /\ a[2] <= b[2])

\* pilots_list.sort(key=...): stable, as every list.sort.
RECURSIVE SortPilots(_, _, _, _)
SortPilots(list, k, sorted, sortOption) ==
  IF k > Len(list) THEN sorted
  ELSE LET x == list[k]
           p == Cardinality({j \in 1..Len(sorted) :
                  TupleLeq(PilotSortKey(sorted[j], sortOption),
                           PilotSortKey(x, sortOption))})
       IN SortPilots(list, k + 1,
            SubSeq(sorted, 1, p) \o <<x>> \o SubSeq(sorted, p + 1, Len(sorted)),
            sortOption)

\* The loop over get_pilots(): each pilot is appended and the list is sorted
\* again, inside the loop.
RECURSIVE PilotsLoop(_, _, _, _)
PilotsLoop(rows, k, list, sortOption) ==
  IF k > Len(rows) THEN list
  ELSE PilotsLoop(rows, k + 1,
         SortPilots(Append(list, PilotData(rows[k])), 1, <<>>, sortOption),
         sortOption)

PilotsList(rows, sortOption) == PilotsLoop(rows, 1, <<>>, sortOption)

\* The pilot tables the database can hold: up to MaxPilots rows, the id of
\* a pilot being its row number.
PilotTables ==
  UNION {[1..n -> {[id |-> 0, callsign |-> cs, name |-> nm] :
                     cs \in Callsigns, nm \in PilotNames}] : n \in 0..MaxPilots}

PilotRows(t) == [k \in 1..Len(t) |-> [t[k] EXCEPT !.id = k]]

\* How the two builds of a composite operation can end.
BuildOutcomes == {"ok", "first_fail", "second_fail"}

\* One synchronous emit of `topic`: the call is recorded, and its message is
\* on the wire unless the emit raised.
SyncEmit(op, topic, c, flags, target, raises) ==
  LET i == Len(history) + 1 IN
  /\ history' = Append(history, Call(op, c, flags, 0, FALSE, raises))
  /\ sent' = IF raises THEN sent
             ELSE Append(sent, Message(topic, target, [snapshot |-> topic], i))

emit_heat_data(c, flags) ==
  /\ Len(history) < MaxCalls
  /\ c \in CallersNow
  /\ SyncEmit("emit_heat_data", "heat_data", c, flags,
              HeatDataTarget(flags, c, active), HeatDataRaises(flags, c))
  /\ slots' = HeatSlots(heatNodes)
  /\ UNCHANGED <<transportVars, events, offloadVars, registryVars, heatNodes, imdVars,
                 pilotVars, raceVars>>

emit_class_data(c, flags) ==
  /\ Len(history) < MaxCalls
  /\ c \in CallersNow
  /\ SyncEmit("emit_class_data", "class_data", c, flags,
              ClassDataTarget(flags, c, active), ClassDataRaises(flags, c))
  /\ UNCHANGED <<transportVars, events, offloadVars, registryVars, builderVars>>

emit_format_data(c, flags) ==
  /\ Len(history) < MaxCalls
  /\ c \in CallersNow
  /\ SyncEmit("emit_format_data", "format_data", c, flags,
              FormatDataTarget(flags, c, active), FormatDataRaises(flags, c))
  /\ UNCHANGED <<transportVars, events, offloadVars, registryVars, builderVars>>

\* A variant of HeatParamsOfPilotData that hands the caller's params on.
HeatParamsOfPilotData_Forwarded(flags) == flags

\* The params emit_pilot_data calls emit_heat_data with: none, whatever its own.
HeatParamsOfPilotData(flags) == {}

\* emit_pilot_data builds the pilots list, sends pilot_data, then calls
\* self.emit_heat_data() with no params.  Nothing in it catches an exception:
\* when the pilot_data build or emit raises, the heat_data call is not
\* reached; when the heat_data build raises, pilot_data is already sent.
emit_pilot_data(c, flags, build) ==
  LET i == Len(history) + 1
      raises == PilotDataRaises(flags, c)
      pilot == Message("pilot_data", PilotDataTarget(flags, c, active),
                       [snapshot |-> "pilot_data"], i)
      heat == Message("heat_data", HeatDataTarget(HeatParamsOfPilotData(flags), c, active),
                      [snapshot |-> "heat_data"], i)
  IN
  /\ Len(history) < MaxCalls
  /\ c \in CallersNow
  /\ history' = Append(history, SnapshotCall("emit_pilot_data", c, flags,
                                             raises \/ build # "ok", 0, build))
  /\ pilots_list' = IF build = "first_fail" THEN pilots_list
                    ELSE PilotsList(pilots, pilotSort)
  /\ sent' = IF build = "first_fail" \/ raises THEN sent
             ELSE IF build = "second_fail" THEN Append(sent, pilot)
             ELSE sent \o <<pilot, heat>>
  /\ slots' = IF build = "ok" /\ ~raises THEN HeatSlots(heatNodes) ELSE slots
  /\ UNCHANGED <<transportVars, events, offloadVars, registryVars, heatNodes, imdVars,
                 pilots, pilotSort, raceVars>>

----------------------------------------------------------------------------
(* Topics that also trigger a domain event.                                *)

Event(kind, data, call) == [kind |-> kind, data |-> data, call |-> call]

\* Message texts passed to emit_priority_message.
MessageTexts == {"msg"}

\* A variant of PriorityMessageEvents whose else is missing: the standard event
\* is triggered after the interrupt one.
PriorityMessageEvents_NoElse(message, interrupt, callerArg, flags, call) ==
  LET data == [message |-> message, interrupt |-> interrupt, caller |-> callerArg] IN
  IF "nobroadcast" \in flags THEN <<>>
  ELSE (IF interrupt THEN <<Event("MESSAGE_INTERRUPT", data, call)>> ELSE <<>>)
       \o <<Event("MESSAGE_STANDARD", data, call)>>

\* The events emit_priority_message triggers: none with 'nobroadcast',
\* otherwise one, of the kind the interrupt flag selects.
PriorityMessageEvents(message, interrupt, callerArg, flags, call) ==
  LET data == [message |-> message, interrupt |-> interrupt, caller |-> callerArg] IN
  IF "nobroadcast" \in flags THEN <<>>
  ELSE IF interrupt THEN <<Event("MESSAGE_INTERRUPT", data, call)>>
  ELSE <<Event("MESSAGE_STANDARD", data, call)>>

PriorityMessageTarget(flags, c, act) ==
  IF "nobroadcast" \in flags THEN EmitToCaller(act, c) ELSE SocketEmit(act)

PriorityMessageRaises(flags, c) == "nobroadcast" \in flags /\ EmitRaises(c)

emit_priority_message(message, interrupt, callerArg, c, flags) ==
  LET i == Len(history) + 1
      raises == PriorityMessageRaises(flags, c)
      payload == [message |-> message, interrupt |-> interrupt]
  IN
  /\ Len(history) < MaxCalls
  /\ c \in CallersNow
  /\ history' = Append(history,
                       Call("emit_priority_message", c, flags, 0, interrupt, raises))
  /\ events' = events \o PriorityMessageEvents(message, interrupt, callerArg, flags, i)
  /\ sent' = IF raises THEN sent
             ELSE Append(sent, Message("priority_message",
                                       PriorityMessageTarget(flags, c, active), payload, i))
  /\ UNCHANGED <<transportVars, offloadVars, registryVars, builderVars>>

\* A variant of FirstPassEvents that triggers again in the broadcast branch.
FirstPassEvents_Twice(node_idx, flags, call) ==
  LET e == Event("RACE_FIRST_PASS", [node_index |-> node_idx], call) IN
  IF "nobroadcast" \in flags THEN <<e>> ELSE <<e, e>>

\* A variant of FirstPassEvents that triggers in the broadcast branch only.
FirstPassEvents_BroadcastOnly(node_idx, flags, call) ==
  IF "nobroadcast" \in flags THEN <<>>
  ELSE <<Event("RACE_FIRST_PASS", [node_index |-> node_idx], call)>>

\* The event emit_first_pass_registered triggers, before it looks at params.
FirstPassEvents(node_idx, flags, call) ==
  <<Event("RACE_FIRST_PASS", [node_index |-> node_idx], call)>>

FirstPassPayload(node_idx) == [node_index |-> node_idx]

FirstPassTarget(flags, c, act) ==
  IF "nobroadcast" \in flags THEN EmitToCaller(act, c) ELSE SocketEmit(act)

FirstPassRaises(flags, c) == "nobroadcast" \in flags /\ EmitRaises(c)

emit_first_pass_registered(node_idx, c, flags) ==
  LET i == Len(history) + 1
      raises == FirstPassRaises(flags, c)
  IN
  /\ Len(history) < MaxCalls
  /\ c \in CallersNow
  /\ history' = Append(history,
                       Call("emit_first_pass_registered", c, flags, node_idx, FALSE, raises))
  /\ events' = events \o FirstPassEvents(node_idx, flags, i)
  /\ sent' = IF raises THEN sent
             ELSE Append(sent, Message("first_pass_registered",
                                       FirstPassTarget(flags, c, active),
                                       FirstPassPayload(node_idx), i))
  /\ UNCHANGED <<transportVars, offloadVars, registryVars, builderVars>>

----------------------------------------------------------------------------
(* The synchronous dispatch specification.                                 *)

Next ==
  \/ \E s \in Sessions : Connect(s)
  \/ \E s \in Sessions : Disconnect(s)
  \/ \E c \in Sessions \cup {NoCaller}, flags \in FlagSets : emit_heat_data(c, flags)
  \/ \E c \in Sessions \cup {NoCaller}, flags \in FlagSets : emit_class_data(c, flags)
  \/ \E c \in Sessions \cup {NoCaller}, flags \in FlagSets : emit_format_data(c, flags)
  \/ \E c \in Sessions \cup {NoCaller}, flags \in FlagSets : emit_pilot_data(c, flags, "ok")
  \/ \E n \in Nodes, c \in Sessions \cup {NoCaller}, flags \in FlagSets :
       emit_first_pass_registered(n, c, flags)
  \/ \E m \in MessageTexts, b \in BOOLEAN, a \in CallerArgs,
        c \in Sessions \cup {NoCaller}, flags \in FlagSets :
       emit_priority_message(m, b, a, c, flags)

Spec == Init /\ [][Next]_vars

----------------------------------------------------------------------------
(* The offloaded result_data topic, and a cheap synchronous topic.         *)

RaceStatusTarget(flags, c, act) ==
  IF "nobroadcast" \in flags THEN EmitToCaller(act, c) ELSE SocketEmit(act)

RaceStatusRaises(flags, c) == "nobroadcast" \in flags /\ EmitRaises(c)

emit_race_status(c, flags) ==
  /\ Len(history) < MaxOffloadCalls
  /\ c \in CallersNow
  /\ SyncEmit("emit_race_status", "race_status", c, flags,
              RaceStatusTarget(flags, c, active), RaceStatusRaises(flags, c))
  /\ UNCHANGED <<transportVars, events, offloadVars, registryVars, builderVars>>

\* The greenlet emit_result_data spawns: the params and, inside a request,
\* request.sid are its arguments; outside a request sid keeps its default.
SpawnedTask(call, flags, c) ==
  [call |-> call, params |-> flags, sid |-> c, state |-> "pending", attempts |-> 0]

\* A variant of ResultDataCallSends that reads the cache and sends inline.
ResultDataCallSends_Inline(call, flags, c) ==
  <<Message("result_data", active, [snapshot |-> "result_data"], call)>>

\* What emit_result_data itself puts on the wire before it returns: nothing.
ResultDataCallSends(call, flags, c) == <<>>

emit_result_data(c, flags) ==
  LET i == Len(history) + 1 IN
  /\ Len(history) < MaxOffloadCalls
  /\ c \in CallersNow
  /\ history' = Append(history, Call("emit_result_data", c, flags, 0, FALSE, FALSE))
  /\ tasks' = Append(tasks, SpawnedTask(i, flags, c))
  /\ sent' = sent \o ResultDataCallSends(i, flags, c)
  /\ UNCHANGED <<transportVars, events, logged, registryVars, builderVars>>

\* A variant of ResultDataTarget that ignores the captured sid.
ResultDataTarget_Broadcast(params, sid, act) == SocketEmit(act)

\* The if / else that ends emit_result_data_thread.
ResultDataTarget(params, sid, act) ==
  IF "nobroadcast" \in params /\ sid # NoCaller THEN EmitToRoom(act, sid)
  ELSE SocketEmit(act)

\* A variant of ThreadMessages that returns early for 'nobroadcast'.
ThreadMessages_EarlyReturn(t, outcome) ==
  IF outcome = "ok" /\ "nobroadcast" \notin t.params
  THEN <<Message("result_data", SocketEmit(active), [snapshot |-> "result_data"], t.call)>>
  ELSE <<>>

\* The body of emit_result_data_thread: get_cache(), then the emit. When
\* either raises, nothing has been sent.
ThreadMessages(t, outcome) ==
  IF outcome = "ok"
  THEN <<Message("result_data", ResultDataTarget(t.params, t.sid, active),
                 [snapshot |-> "result_data"], t.call)>>
  ELSE <<>>

\* A variant of ThreadStateAfter that leaves a failed task to be run again.
ThreadStateAfter_Retry(outcome) == IF outcome = "ok" THEN "done" ELSE "pending"

\* The greenlet runs its body once and ends, whatever the outcome.
ThreadStateAfter(outcome) == IF outcome = "ok" THEN "done" ELSE "failed"

\* The decorator of emit_result_data_thread: an exception of the body is
\* logged and swallowed.
catchLogExceptionsWrapper(call, outcome) ==
  IF outcome = "ok" THEN <<>> ELSE <<[call |-> call, error |-> outcome]>>

emit_result_data_thread(i, outcome) ==
  /\ i \in 1..Len(tasks)
  /\ tasks[i].state = "pending"
  /\ tasks' = [tasks EXCEPT ![i].state = ThreadStateAfter(outcome),
                            ![i].attempts = @ + 1]
  /\ sent' = sent \o ThreadMessages(tasks[i], outcome)
  /\ logged' = logged \o catchLogExceptionsWrapper(tasks[i].call, outcome)
  /\ UNCHANGED <<transportVars, history, events, registryVars, builderVars>>

\* gevent runs a spawned greenlet independently of its spawner and of the
\* other greenlets: get_cache() may yield, so any pending task may be the
\* next one to read the cache and send.
RunTask(i) == \E o \in Outcomes : emit_result_data_thread(i, o)

----------------------------------------------------------------------------
(* IMDTabler: the external analysis tool.                                  *)

\* The frequencies a node can be set to; 0 is "node off".
Freqs == {0, 5658, 5695, 5760}

\* Python's str() on a frequency.
str(val) ==
  CASE val = 0 -> "0"
    [] val = 5658 -> "5658"
    [] val = 5695 -> "5695"
    [] val = 5760 -> "5760"

\* profile_freqs['f'][:num_nodes]
Slice(f, n) == SubSeq(f, 1, IF n < Len(f) THEN n ELSE Len(f))

\* A variant of FromKeys that keeps every entry.
FromKeys_KeepAll(list, k, keys) == list

\* list(OrderedDict.fromkeys(list)): an entry is a new key only the first
\* time it is seen.
RECURSIVE FromKeys(_, _, _)
FromKeys(list, k, keys) ==
  IF k > Len(list) THEN keys
  ELSE FromKeys(list, k + 1,
         IF \E j \in 1..Len(keys) : keys[j] = list[k] THEN keys
         ELSE Append(keys, list[k]))

\* The loop building fs_list: zero entries are dropped, the others become text.
RECURSIVE FsList(_, _, _)
FsList(fi_list, k, fs_list) ==
  IF k > Len(fi_list) THEN fs_list
  ELSE FsList(fi_list, k + 1,
         IF fi_list[k] > 0 THEN Append(fs_list, str(fi_list[k])) ELSE fs_list)

\* fs_list as emit_imdtabler_page and emit_imdtabler_rating build it.
ProfileFsList(f, n) == FsList(FromKeys(Slice(f, n), 1, <<>>), 1, <<>>)

\* A variant of NeedsAnalysis that runs the jar from two entries on.
NeedsAnalysis_TwoPlus(fs_list) == Len(fs_list) > 1

\* `if len(fs_list) > 2`: the jar analyses three or more frequencies.
NeedsAnalysis(fs_list) == Len(fs_list) > 2

\* One run of `java -jar IMDTABLER_JAR_NAME opt args`.
Invocation(call, opt, args, ok) ==
  [call |-> call, opt |-> opt, args |-> args, ok |-> ok]

\* The body of emit_imdtabler_data up to its emit: the jar runs, if at all,
\* inside a try whose except sets imdtabler_data to None and logs.
ImdDataInvocations(call, fs_list, toolOk) ==
  IF NeedsAnalysis(fs_list) THEN <<Invocation(call, "-t", fs_list, toolOk)>> ELSE <<>>

ImdTableData(fs_list, toolOk) ==
  IF NeedsAnalysis(fs_list) /\ toolOk THEN "table" ELSE "None"

ImdDataLogged(call, fs_list, toolOk) ==
  IF NeedsAnalysis(fs_list) /\ ~toolOk
  THEN <<[call |-> call, error |-> "emit_imdtabler_data exception"]>>
  ELSE <<>>

ImdDataPayload(fs_list, toolOk, imdtabler_ver) ==
  [freq_list |-> fs_list, table_data |-> ImdTableData(fs_list, toolOk),
   version_str |-> imdtabler_ver]

\* The frequency lists a client hands to emit_imdtabler_data: the text of any
\* leading part of the profile, zeros and duplicates included.
RECURSIVE StrAll(_)
StrAll(list) ==
  IF list = <<>> THEN <<>> ELSE <<str(Head(list))>> \o StrAll(Tail(list))

ClientFsLists == {StrAll(SubSeq(profile_freqs, 1, n)) : n \in 0..Len(profile_freqs)}

VersionArgs == {"None", "ver"}

emit_imdtabler_data(fs_list, imdtabler_ver, c, flags, toolOk) ==
  LET i == Len(history) + 1
      raises == "nobroadcast" \in flags /\ EmitRaises(c)
      target == IF "nobroadcast" \in flags THEN EmitToCaller(active, c)
                ELSE SocketEmit(active)
  IN
  /\ history = <<>>
  /\ c \in CallersNow
  /\ history' = Append(history, Call("emit_imdtabler_data", c, flags, 0, FALSE, raises))
  /\ invocations' = invocations \o ImdDataInvocations(i, fs_list, toolOk)
  /\ logged' = logged \o ImdDataLogged(i, fs_list, toolOk)
  /\ sent' = IF raises THEN sent
             ELSE Append(sent, Message("imdtabler_data", target,
                                       ImdDataPayload(fs_list, toolOk, imdtabler_ver), i))
  /\ UNCHANGED <<transportVars, events, tasks, registryVars, heatVars,
                 profile_freqs, num_nodes, pilotVars, raceVars>>

\* emit_imdtabler_page asks the jar for its version first; everything up to
\* the call of emit_imdtabler_data is inside one try whose except only logs.
emit_imdtabler_page(Use_imdtabler_jar_flag, verOk, toolOk) ==
  LET i == Len(history) + 1
      fs_list == ProfileFsList(profile_freqs, num_nodes)
      version == Invocation(i, "-v", <<>>, verOk)
  IN
  /\ history = <<>>
  /\ history' = Append(history, Call("emit_imdtabler_page", NoCaller, {}, 0, FALSE, FALSE))
  /\ IF ~Use_imdtabler_jar_flag
     THEN UNCHANGED <<invocations, logged, sent>>
     ELSE IF ~verOk
     THEN /\ invocations' = Append(invocations, version)
          /\ logged' = Append(logged, [call |-> i, error |-> "emit_imdtabler_page exception"])
          /\ UNCHANGED sent
     ELSE /\ invocations' = Append(invocations, version) \o ImdDataInvocations(i, fs_list, toolOk)
          /\ logged' = logged \o ImdDataLogged(i, fs_list, toolOk)
          /\ sent' = Append(sent, Message("imdtabler_data", SocketEmit(active),
                                          ImdDataPayload(fs_list, toolOk, "ver"), i))
  /\ UNCHANGED <<transportVars, events, tasks, registryVars, heatVars,
                 profile_freqs, num_nodes, pilotVars, raceVars>>

emit_imdtabler_rating(toolOk) ==
  LET i == Len(history) + 1
      fs_list == ProfileFsList(profile_freqs, num_nodes)
      invoke == NeedsAnalysis(fs_list)
      imd_val == IF invoke /\ toolOk THEN "rating" ELSE "None"
  IN
  /\ history = <<>>
  /\ history' = Append(history, Call("emit_imdtabler_rating", NoCaller, {}, 0, FALSE, FALSE))
  /\ invocations' = IF invoke THEN Append(invocations, Invocation(i, "-r", fs_list, toolOk))
                    ELSE invocations
  /\ logged' = IF invoke /\ ~toolOk
               THEN Append(logged, [call |-> i, error |-> "emit_imdtabler_rating exception"])
               ELSE logged
  /\ sent' = Append(sent, Message("imdtabler_rating", SocketEmit(active),
                                  [imd_rating |-> imd_val], i))
  /\ UNCHANGED <<transportVars, events, tasks, registryVars, heatVars,
                 profile_freqs, num_nodes, pilotVars, raceVars>>

\* The IMDTabler specification: any profile and node count, then one call of
\* one of the three operations, with the jar succeeding or failing.
ImdInit ==
  /\ ConnectedInit
  /\ HeatIdle
  /\ profile_freqs \in [1..MaxProfileLen -> Freqs]
  /\ num_nodes \in 0..MaxProfileLen
  /\ invocations = <<>>
  /\ PilotIdle
  /\ RaceIdle

ImdNext ==
  \/ \E flag \in BOOLEAN, verOk \in BOOLEAN, toolOk \in BOOLEAN :
       emit_imdtabler_page(flag, verOk, toolOk)
  \/ \E fs_list \in ClientFsLists, ver \in VersionArgs, c \in CallersNow,
        flags \in OffloadFlagSets, toolOk \in BOOLEAN :
       emit_imdtabler_data(fs_list, ver, c, flags, toolOk)
  \/ \E toolOk \in BOOLEAN : emit_imdtabler_rating(toolOk)

ImdSpec == ImdInit /\ [][ImdNext]_vars

----------------------------------------------------------------------------
(* Snapshot builders that look up a pilot or a heat.                       *)

\* rhdata.get_pilot / get_heat: the record found, as a one-element tuple, or
\* None.
get_pilot(pilot_id) == SelectSeq(pilots, LAMBDA p : p.id = pilot_id)
get_heat(heat_id) == IF heat_id \in heats THEN <<heat_id>> ELSE None

\* The pilot ids the callers ask about; the database holds pilot 1 at most.
PilotIds == {1, 2}

\* `if 'nobroadcast' in params: emit(...) else: self._socket.emit(...)`
SnapshotTarget(flags, c, act) ==
  IF "nobroadcast" \in flags THEN EmitToCaller(act, c) ELSE SocketEmit(act)

SnapshotRaises(flags, c) == "nobroadcast" \in flags /\ EmitRaises(c)

\* `pilot.phonetic or pilot.callsign`
PhoneticName(pilot) == IF pilot.phonetic # "" THEN pilot.phonetic ELSE pilot.callsign

\* emit_phonetic_split reads pilot.phonetic without testing the pilot: with no
\* pilot record the attribute access raises and nothing is sent.
emit_phonetic_split(pilot_id, c, flags) ==
  LET i == Len(history) + 1
      pilot == get_pilot(pilot_id)
      fails == pilot = None
      raises == fails \/ SnapshotRaises(flags, c)
  IN
  /\ history = <<>>
  /\ c \in CallersNow
  /\ history' = Append(history, SnapshotCall("emit_phonetic_split", c, flags, raises,
                                             pilot_id, IF fails THEN "first_fail" ELSE "ok"))
  /\ sent' = IF raises THEN sent
             ELSE Append(sent, Message("phonetic_split_call", SnapshotTarget(flags, c, active),
                                       [pilot_name |-> <<PhoneticName(pilot[1])>>], i))
  /\ UNCHANGED <<transportVars, events, offloadVars, registryVars, builderVars>>

\* emit_split_pass_info calls emit_current_laps(), then emit_phonetic_split(),
\* both without params and without a try: an exception of the first call
\* (get_lap_results) ends the operation before the second.
emit_split_pass_info(pilot_id, lapsOk) ==
  LET i == Len(history) + 1
      pilot == get_pilot(pilot_id)
      build == IF ~lapsOk THEN "first_fail"
               ELSE IF pilot = None THEN "second_fail" ELSE "ok"
      laps == Message("current_laps", SocketEmit(active), [snapshot |-> "current_laps"], i)
  IN
  /\ history = <<>>
  /\ history' = Append(history, SnapshotCall("emit_split_pass_info", NoCaller, {},
                                             build # "ok", pilot_id, build))
  /\ sent' = IF build = "first_fail" THEN sent
             ELSE IF build = "second_fail" THEN Append(sent, laps)
             ELSE sent \o <<laps, Message("phonetic_split_call", SocketEmit(active),
                                          [pilot_name |-> <<PhoneticName(pilot[1])>>], i)>>
  /\ UNCHANGED <<transportVars, events, offloadVars, registryVars, builderVars>>

\* emit_current_leaderboard calls get_heat(current_heat).displayname() unless
\* the current heat is HEAT_ID_NONE: with no heat record the call raises.
emit_current_leaderboard(c, flags) ==
  LET i == Len(history) + 1
      practice == current_heat = "HEAT_ID_NONE"
      fails == ~practice /\ get_heat(current_heat) = None
      raises == fails \/ SnapshotRaises(flags, c)
      payload == [displayname |-> IF practice THEN <<"Practice">> ELSE <<"displayname">>,
                  heat |-> current_heat]
  IN
  /\ history = <<>>
  /\ c \in CallersNow
  /\ history' = Append(history, SnapshotCall("emit_current_leaderboard", c, flags, raises,
                                             0, IF fails THEN "first_fail" ELSE "ok"))
  /\ sent' = IF raises THEN sent
             ELSE Append(sent, Message("leaderboard", SnapshotTarget(flags, c, active),
                                       payload, i))
  /\ UNCHANGED <<transportVars, events, offloadVars, registryVars, builderVars>>

\* emit_phonetic_data tests the pilot: without one it names the node by its
\* frequency when a node index is given, and sends nulls otherwise.
emit_phonetic_data(pilot_id, node_index, c, flags) ==
  LET i == Len(history) + 1
      pilot == get_pilot(pilot_id)
      raises == SnapshotRaises(flags, c)
      callsign == <<str(profile_freqs[node_index[1] + 1])>>
      payload == IF pilot # None
                 THEN [pilot |-> <<pilot[1].phonetic>>, callsign |-> <<pilot[1].callsign>>,
                       pilot_id |-> <<pilot[1].id>>]
                 ELSE IF node_index # None
                 THEN [pilot |-> callsign, callsign |-> callsign, pilot_id |-> None]
                 ELSE [pilot |-> None, callsign |-> None, pilot_id |-> None]
  IN
  /\ history = <<>>
  /\ c \in CallersNow
  /\ history' = Append(history, SnapshotCall("emit_phonetic_data", c, flags, raises,
                                             pilot_id, "ok"))
  /\ sent' = IF raises THEN sent
             ELSE Append(sent, Message("phonetic_data", SnapshotTarget(flags, c, active),
                                       payload, i))
  /\ UNCHANGED <<transportVars, events, offloadVars, registryVars, builderVars>>

\* emit_race_list: the callsign of a saved pilot race is None when its pilot
\* record is gone.
RaceListPilotraces ==
  [k \in 1..Len(savedPilotRaces) |->
     [pilotrace_id |-> savedPilotRaces[k].id,
      callsign |-> IF get_pilot(savedPilotRaces[k].pilot_id) # None
                   THEN <<get_pilot(savedPilotRaces[k].pilot_id)[1].callsign>>
                   ELSE None,
      pilot_id |-> savedPilotRaces[k].pilot_id,
      node_index |-> savedPilotRaces[k].node_index]]

emit_race_list(c, flags) ==
  LET i == Len(history) + 1
      raises == SnapshotRaises(flags, c)
  IN
  /\ history = <<>>
  /\ c \in CallersNow
  /\ history' = Append(history, SnapshotCall("emit_race_list", c, flags, raises, 0, "ok"))
  /\ sent' = IF raises THEN sent
             ELSE Append(sent, Message("race_list", SnapshotTarget(flags, c, active),
                                       [pilotraces |-> RaceListPilotraces], i))
  /\ UNCHANGED <<transportVars, events, offloadVars, registryVars, builderVars>>

\* emit_current_heat: one entry per node, nulls by default; with a heat record
\* the seated nodes get their pilot id, and their callsign when the pilot
\* record exists; without one (practice) the nodes are named by frequency.
CurrentHeatNodes ==
  LET seated == {k \in 1..Len(heatNodes) : heatNodes[k].node_index # None}
      rowOf(idx) == CHOOSE k \in seated : heatNodes[k].node_index = <<idx>>
      nodes == 0..(num_nodes - 1)
  IN
  IF get_heat(current_heat) # None
  THEN [idx \in nodes \cup {heatNodes[k].node_index[1] : k \in seated} |->
          IF \E k \in seated : heatNodes[k].node_index = <<idx>>
          THEN [pilot_id |-> <<heatNodes[rowOf(idx)].pilot_id>>,
                callsign |-> IF get_pilot(heatNodes[rowOf(idx)].pilot_id) # None
                             THEN <<get_pilot(heatNodes[rowOf(idx)].pilot_id)[1].callsign>>
                             ELSE None]
          ELSE [pilot_id |-> None, callsign |-> None]]
  ELSE [idx \in nodes |-> [pilot_id |-> None, callsign |-> <<str(profile_freqs[idx + 1])>>]]

emit_current_heat(c, flags) ==
  LET i == Len(history) + 1
      raises == SnapshotRaises(flags, c)
  IN
  /\ history = <<>>
  /\ c \in CallersNow
  /\ history' = Append(history, SnapshotCall("emit_current_heat", c, flags, raises, 0, "ok"))
  /\ sent' = IF raises THEN sent
             ELSE Append(sent, Message("current_heat", SnapshotTarget(flags, c, active),
                                       [current_heat |-> current_heat,
                                        heatNodes |-> CurrentHeatNodes], i))
  /\ UNCHANGED <<transportVars, events, offloadVars, registryVars, builderVars>>

\* The pilot tables of the snapshot specification: no pilot, or pilot 1 with
\* or without a phonetic name.
SnapshotPilots ==
  {<<>>} \cup {<<[id |-> 1, callsign |-> "ace", name |-> "ann", phonetic |-> ph]>> :
                 ph \in {"", "ay see"}}

\* The snapshot specification: a database with or without pilot 1, heat h1,
\* a node row seating pilot 1 and a saved race of pilot 1; then one call.
SnapshotInit ==
  /\ ConnectedInit
  /\ heatNodes \in {HeatNodeRows(<<>>), HeatNodeRows(<< <<0>> >>)}
  /\ slots = <<>>
  /\ profile_freqs = <<5658, 5695>>
  /\ num_nodes = 2
  /\ invocations = <<>>
  /\ pilots \in SnapshotPilots
  /\ pilotSort = "name"
  /\ pilots_list = <<>>
  /\ current_heat \in {"HEAT_ID_NONE", "h1"}
  /\ heats \in SUBSET {"h1"}
  /\ savedPilotRaces \in {<<>>, <<[id |-> 1, pilot_id |-> 1, node_index |-> 0]>>}

SnapshotNext ==
  \/ \E pid \in PilotIds, c \in CallersNow, flags \in OffloadFlagSets :
       emit_phonetic_split(pid, c, flags)
  \/ \E pid \in PilotIds, lapsOk \in BOOLEAN : emit_split_pass_info(pid, lapsOk)
  \/ \E c \in CallersNow, flags \in OffloadFlagSets : emit_current_leaderboard(c, flags)
  \/ \E pid \in PilotIds, idx \in {None, <<0>>}, c \in CallersNow,
        flags \in OffloadFlagSets : emit_phonetic_data(pid, idx, c, flags)
  \/ \E c \in CallersNow, flags \in OffloadFlagSets : emit_race_list(c, flags)
  \/ \E c \in CallersNow, flags \in OffloadFlagSets : emit_current_heat(c, flags)
  \/ \E c \in CallersNow, flags \in FlagSets, build \in BuildOutcomes :
       emit_pilot_data(c, flags, build)

SnapshotSpec == SnapshotInit /\ [][SnapshotNext]_vars

\* The pilot specification: any pilot table and sort option, then
\* emit_pilot_data is called.
PilotInit ==
  /\ ConnectedInit
  /\ HeatIdle
  /\ ImdIdle
  /\ pilots \in {PilotRows(t) : t \in PilotTables}
  /\ pilotSort \in PilotSorts
  /\ pilots_list = <<>>
  /\ RaceIdle

PilotNext ==
  \E c \in CallersNow, flags \in FlagSets : emit_pilot_data(c, flags, "ok")

PilotSpec == PilotInit /\ [][PilotNext]_vars

\* The heat specification: the database holds one heat with any admissible
\* rows, and emit_heat_data is called.
HeatInit ==
  /\ ConnectedInit
  /\ heatNodes \in HeatNodeLists
  /\ slots = <<>>
  /\ ImdIdle
  /\ PilotIdle
  /\ RaceIdle

HeatNext ==
  \E c \in CallersNow, flags \in FlagSets : emit_heat_data(c, flags)

HeatSpec == HeatInit /\ [][HeatNext]_vars

\* The offload specification starts with every session connected.
OffloadInit ==
  /\ active = Sessions
  /\ closed = {}
  /\ history = <<>>
  /\ sent = <<>>
  /\ events = <<>>
  /\ tasks = <<>>
  /\ logged = <<>>
  /\ pilot_attributes = <<>>
  /\ ui_panels = <<>>
  /\ general_settings = <<>>
  /\ regLog = <<>>
  /\ returned = <<>>
  /\ panelQuery = NoQuery
  /\ BuilderIdle

OffloadNext ==
  \/ \E s \in Sessions : Disconnect(s)
  \/ \E c \in Sessions \cup {NoCaller}, flags \in OffloadFlagSets : emit_result_data(c, flags)
  \/ \E c \in Sessions \cup {NoCaller}, flags \in OffloadFlagSets : emit_race_status(c, flags)
  \/ \E i \in 1..MaxOffloadCalls : RunTask(i)

\* The hub runs every spawned greenlet: a pending task is eventually run.
OffloadSpec ==
  /\ OffloadInit
  /\ [][OffloadNext]_vars
  /\ \A i \in 1..MaxOffloadCalls : WF_vars(RunTask(i))

----------------------------------------------------------------------------
(* The extension registry.                                                 *)

Names == {"n1", "n2"}
Labels == {"L"}
FieldTypes == {"text", "checkbox"}
Pages == {"settings", "format"}
Orders == {0, 1}

\* panel=None: a setting assigned to no panel.
NoPanel == "None"

PilotAttribute(name, label, fieldtype) ==
  [name |-> name, label |-> label, fieldtype |-> fieldtype]

UIPanel(name, label, page, order) ==
  [name |-> name, label |-> label, page |-> page, order |-> order]

GeneralSetting(name, label, panel, fieldtype, order) ==
  [name |-> name, label |-> label, panel |-> panel, fieldtype |-> fieldtype,
   order |-> order]

\* A variant of AppendPilotAttribute that rejects an already registered name.
AppendPilotAttribute_Unique(list, d) ==
  IF \E k \in 1..Len(list) : list[k].name = d.name THEN list ELSE Append(list, d)

\* self._pilot_attributes.append(...)
AppendPilotAttribute(list, d) == Append(list, d)

\* self.ui_panels.append(...): the property returns self._ui_panels itself.
AppendUIPanel(list, d) == Append(list, d)

\* self._general_settings.append(...)
AppendGeneralSetting(list, d) == Append(list, d)

register_pilot_attribute(name, label, fieldtype) ==
  LET d == PilotAttribute(name, label, fieldtype) IN
  /\ Len(regLog) < MaxRegistrations
  /\ pilot_attributes' = AppendPilotAttribute(pilot_attributes, d)
  /\ returned' = pilot_attributes'
  /\ regLog' = Append(regLog, [kind |-> "pilot_attribute", desc |-> d])
  /\ UNCHANGED <<ui_panels, general_settings, panelQuery, transportVars, dispatchVars,
                 offloadVars, builderVars>>

register_ui_panel(name, label, page, order) ==
  LET d == UIPanel(name, label, page, order) IN
  /\ Len(regLog) < MaxRegistrations
  /\ ui_panels' = AppendUIPanel(ui_panels, d)
  /\ returned' = ui_panels'
  /\ regLog' = Append(regLog, [kind |-> "ui_panel", desc |-> d])
  /\ UNCHANGED <<pilot_attributes, general_settings, panelQuery, transportVars,
                 dispatchVars, offloadVars, builderVars>>

register_general_setting(name, label, panel, fieldtype, order) ==
  LET d == GeneralSetting(name, label, panel, fieldtype, order) IN
  /\ Len(regLog) < MaxRegistrations
  /\ general_settings' = AppendGeneralSetting(general_settings, d)
  /\ returned' = general_settings'
  /\ regLog' = Append(regLog, [kind |-> "general_setting", desc |-> d])
  /\ UNCHANGED <<pilot_attributes, ui_panels, panelQuery, transportVars, dispatchVars,
                 offloadVars, builderVars>>

\* A variant of PanelSettingsLoop that compares the setting's own name.
RECURSIVE PanelSettingsLoop_ByName(_, _, _, _)
PanelSettingsLoop_ByName(settings, k, name, payload) ==
  IF k > Len(settings) THEN payload
  ELSE PanelSettingsLoop_ByName(settings, k + 1, name,
         IF settings[k].name = name THEN Append(payload, settings[k]) ELSE payload)

\* The loop of get_panel_settings: payload starts empty, and every setting
\* whose panel is `name` is appended to it, in list order.
RECURSIVE PanelSettingsLoop(_, _, _, _)
PanelSettingsLoop(settings, k, name, payload) ==
  IF k > Len(settings) THEN payload
  ELSE PanelSettingsLoop(settings, k + 1, name,
         IF settings[k].panel = name THEN Append(payload, settings[k]) ELSE payload)

\* The panel names get_panel_settings is asked for.
QueryNames == Names \cup {NoPanel}

get_panel_settings(name) ==
  /\ panelQuery' = [name |-> name,
                    result |-> PanelSettingsLoop(general_settings, 1, name, <<>>),
                    settings |-> general_settings]
  /\ UNCHANGED <<pilot_attributes, ui_panels, general_settings, regLog, returned,
                 transportVars, dispatchVars, offloadVars, builderVars>>

RegistryNext ==
  \/ \E name \in QueryNames : get_panel_settings(name)
  \/ \E n \in Names, l \in Labels, f \in FieldTypes : register_pilot_attribute(n, l, f)
  \/ \E n \in Names, l \in Labels, p \in Pages, o \in Orders : register_ui_panel(n, l, p, o)
  \/ \E n \in Names, l \in Labels, p \in Names \cup {NoPanel}, o \in Orders :
       register_general_setting(n, l, p, "text", o)

RegistrySpec == Init /\ [][RegistryNext]_vars

----------------------------------------------------------------------------
(* Properties.                                                             *)

AddressedOps == {"emit_heat_data", "emit_class_data", "emit_format_data", "emit_pilot_data"}

TopicOf(op) ==
  CASE op = "emit_heat_data" -> "heat_data"
    [] op = "emit_class_data" -> "class_data"
    [] op = "emit_format_data" -> "format_data"
    [] op = "emit_pilot_data" -> "pilot_data"

\* The messages of one topic that one call put on the wire.
SentOn(i, topic) == SelectSeq(sent, LAMBDA m : m.call = i /\ m.topic = topic)

LoggedFor(i) == SelectSeq(logged, LAMBDA l : l.call = i)

\* C1: for heat_data, class_data, format_data and pilot_data, one emit call made
\* by a connected caller c with session set S sends exactly one message of its
\* topic: to {c} with 'nobroadcast', to S minus {c} with 'noself' (and no
\* 'nobroadcast'), to S with neither flag.
C1_AddressingModes ==
  \A i \in 1..Len(history) :
    (history[i].op \in AddressedOps /\ history[i].caller \in Sessions) =>
      LET h == history[i]
          ms == SentOn(i, TopicOf(h.op))
      IN /\ Len(ms) = 1
         /\ h.caller \in ms[1].act
         /\ ms[1].to = IF "nobroadcast" \in h.flags THEN {h.caller}
                       ELSE IF "noself" \in h.flags THEN ms[1].act \ {h.caller}
                       ELSE ms[1].act

\* C1 witness: s1 emitted heat_data with 'noself' while s1 and s2 were
\* connected, and the message went to s2 alone.
C1_Witness ==
  \E i \in 1..Len(history) :
    /\ history[i].op = "emit_heat_data"
    /\ history[i].caller = "s1"
    /\ history[i].flags = {"noself"}
    /\ Len(SentOn(i, "heat_data")) = 1
    /\ SentOn(i, "heat_data")[1].act = {"s1", "s2"}
    /\ SentOn(i, "heat_data")[1].to = {"s2"}

\* C2 (as claimed): a result_data task submitted with 'nobroadcast' outside any
\* request (no sid) delivers its message to no session.
C2_DroppedWithoutCaller ==
  \A i \in 1..Len(tasks) :
    ("nobroadcast" \in tasks[i].params /\ tasks[i].sid = NoCaller) =>
      \A k \in 1..Len(sent) : sent[k].call = tasks[i].call => sent[k].to = {}

\* C3 (as claimed): every offloaded result_data task that has completed has
\* delivered its message.
C3_EveryTaskDelivers ==
  \A i \in 1..Len(tasks) :
    tasks[i].state # "pending" => Len(SentOn(tasks[i].call, "result_data")) = 1

\* C3 (amended): under fair scheduling every spawned task eventually completes;
\* a task that completed without raising has sent exactly one result_data
\* message and a task that raised has sent none; every race_status emit that
\* did not raise has its message on the wire, whatever tasks are pending.
C3_CompletesAndDeliversUnlessFailed ==
  /\ \A i \in 1..MaxOffloadCalls :
       (i <= Len(tasks) /\ tasks[i].state = "pending")
         ~> (i <= Len(tasks) /\ tasks[i].state # "pending")
  /\ [](\A i \in 1..Len(tasks) :
          /\ tasks[i].state = "done" => Len(SentOn(tasks[i].call, "result_data")) = 1
          /\ tasks[i].state = "failed" => Len(SentOn(tasks[i].call, "result_data")) = 0)
  /\ [](\A j \in 1..Len(history) :
          (history[j].op = "emit_race_status" /\ ~history[j].raised) =>
            Len(SentOn(j, "race_status")) = 1)

\* C3 witness: a caller called emit_result_data and then emit_race_status, and
\* both messages have been delivered to it.
C3_Witness ==
  \E i \in 1..Len(tasks) :
    LET a == tasks[i].call
        b == tasks[i].call + 1
    IN /\ b <= Len(history)
       /\ history[b].op = "emit_race_status"
       /\ history[a].caller \in Sessions
       /\ history[b].caller = history[a].caller
       /\ tasks[i].state = "done"
       /\ Len(SentOn(a, "result_data")) = 1
       /\ history[a].caller \in SentOn(a, "result_data")[1].to
       /\ Len(SentOn(b, "race_status")) = 1
       /\ history[b].caller \in SentOn(b, "race_status")[1].to

\* C4: emit_result_data returns without reading the cache or sending (its task
\* is still pending, has not run, and nothing of that call is on the wire until
\* the task runs), and a race_status emit sends its message at once, also while
\* a task is pending.
C4_OffloadDoesNotBlock ==
  /\ \A i \in 1..Len(tasks) :
       /\ history[tasks[i].call].op = "emit_result_data"
       /\ ~history[tasks[i].call].raised
       /\ Len(SentOn(tasks[i].call, "result_data")) <= tasks[i].attempts
       /\ tasks[i].state = "pending" =>
            (tasks[i].attempts = 0 /\ SentBy(tasks[i].call) = <<>>)
  /\ Cardinality({j \in 1..Len(history) : history[j].op = "emit_result_data"}) = Len(tasks)
  /\ \A j \in 1..Len(history) :
       (history[j].op = "emit_race_status" /\ ~history[j].raised) =>
         Len(SentOn(j, "race_status")) = 1

\* C4 witness: a race_status message of a later call is on the wire while the
\* task of an earlier emit_result_data call is still pending.
C4_Witness ==
  \E i \in 1..Len(tasks), k \in 1..Len(sent) :
    /\ tasks[i].state = "pending"
    /\ sent[k].topic = "race_status"
    /\ sent[k].call > tasks[i].call
    /\ sent[k].to # {}

\* C5: a task submitted with 'nobroadcast' by session A sends its result_data
\* message to A's session only (to A if A is still connected at the send, to no
\* one otherwise), whatever ran between the submit and the send.
C5_CapturedCaller ==
  \A i \in 1..Len(tasks) :
    ("nobroadcast" \in tasks[i].params /\ tasks[i].sid \in Sessions) =>
      /\ tasks[i].sid = history[tasks[i].call].caller
      /\ \A k \in 1..Len(sent) :
           sent[k].call = tasks[i].call => sent[k].to = sent[k].act \cap {tasks[i].sid}

\* C5 witness: s1 and then s2 requested result_data with 'nobroadcast', the
\* task of s2 ran first, and each got exactly its own message.
C5_Witness ==
  /\ Len(tasks) = 2
  /\ tasks[1].sid = "s1" /\ tasks[2].sid = "s2"
  /\ "nobroadcast" \in tasks[1].params /\ "nobroadcast" \in tasks[2].params
  /\ Len(sent) = 2
  /\ sent[1].call = tasks[2].call /\ sent[1].to = {"s2"}
  /\ sent[2].call = tasks[1].call /\ sent[2].to = {"s1"}

\* C6: a task whose snapshot read or send raised ends as failed after its
\* single attempt: the exception is logged once, nothing of the task is on the
\* wire, the emit_result_data call that spawned it did not raise, and no task
\* is ever attempted twice.
C6_FailureIsolated ==
  \A i \in 1..Len(tasks) :
    /\ tasks[i].attempts <= 1
    /\ tasks[i].state = "pending" => tasks[i].attempts = 0
    /\ tasks[i].state = "failed" =>
         /\ tasks[i].attempts = 1
         /\ SentBy(tasks[i].call) = <<>>
         /\ Len(LoggedFor(tasks[i].call)) = 1
         /\ ~history[tasks[i].call].raised
    /\ tasks[i].state # "failed" => LoggedFor(tasks[i].call) = <<>>

\* C6 witness: one task failed in the snapshot read and another in the send.
C6_Witness ==
  \E i, j \in 1..Len(tasks) :
    /\ tasks[i].state = "failed" /\ tasks[j].state = "failed"
    /\ LoggedFor(tasks[i].call) = <<[call |-> tasks[i].call, error |-> "read_fail"]>>
    /\ LoggedFor(tasks[j].call) = <<[call |-> tasks[j].call, error |-> "send_fail"]>>

\* C7 (as claimed): two emits of the same operation issued in program order by
\* the same caller reach every session that receives both in that order.
C7_ProgramOrderPerTopic ==
  \A p, q \in 1..Len(sent) :
    ( /\ sent[p].topic = sent[q].topic
      /\ sent[p].call < sent[q].call
      /\ history[sent[p].call].op = history[sent[q].call].op
      /\ history[sent[p].call].caller = history[sent[q].call].caller
      /\ sent[p].to \cap sent[q].to # {} ) => p < q

\* C8: emit_first_pass_registered(node_idx) without 'nobroadcast' sends exactly
\* one first_pass_registered message, to every connected session, and triggers
\* exactly one RACE_FIRST_PASS event whose node_index is the payload's.
C8_FirstPass ==
  \A i \in 1..Len(history) :
    (history[i].op = "emit_first_pass_registered" /\ "nobroadcast" \notin history[i].flags) =>
      /\ Len(SentBy(i)) = 1
      /\ SentBy(i)[1].topic = "first_pass_registered"
      /\ SentBy(i)[1].to = SentBy(i)[1].act
      /\ SentBy(i)[1].payload.node_index = history[i].node
      /\ Len(EventsBy(i)) = 1
      /\ EventsBy(i)[1].kind = "RACE_FIRST_PASS"
      /\ EventsBy(i)[1].data.node_index = SentBy(i)[1].payload.node_index

\* C8 witness: the first pass of node 1 was emitted to s1 and s2 and triggered
\* its event.
C8_Witness ==
  \E i \in 1..Len(history) :
    /\ history[i].op = "emit_first_pass_registered"
    /\ history[i].flags = {}
    /\ history[i].node = 1
    /\ Len(SentBy(i)) = 1
    /\ SentBy(i)[1].to = {"s1", "s2"}
    /\ Len(EventsBy(i)) = 1
    /\ EventsBy(i)[1].data.node_index = 1

\* The kind of event the interrupt flag selects.
KindFor(interrupt) == IF interrupt THEN "MESSAGE_INTERRUPT" ELSE "MESSAGE_STANDARD"

\* C9 (as claimed): every emit_priority_message call that returns triggers
\* exactly one event, MESSAGE_INTERRUPT when interrupt is true and
\* MESSAGE_STANDARD when it is false.
C9_OneEventPerCall ==
  \A i \in 1..Len(history) :
    (history[i].op = "emit_priority_message" /\ ~history[i].raised) =>
      /\ Len(EventsBy(i)) = 1
      /\ EventsBy(i)[1].kind = KindFor(history[i].interrupt)

\* C9 (amended): an emit_priority_message call without 'nobroadcast' triggers
\* exactly one event, of the kind the interrupt flag selects; with 'nobroadcast'
\* it triggers none; it never triggers both kinds or two events.
C9_ExclusiveKinds ==
  \A i \in 1..Len(history) :
    history[i].op = "emit_priority_message" =>
      /\ Len(EventsBy(i)) <= 1
      /\ \A k \in 1..Len(EventsBy(i)) : EventsBy(i)[k].kind = KindFor(history[i].interrupt)
      /\ "nobroadcast" \notin history[i].flags => Len(EventsBy(i)) = 1
      /\ "nobroadcast" \in history[i].flags => Len(EventsBy(i)) = 0

\* C9 witness: an interrupting message was broadcast and triggered
\* MESSAGE_INTERRUPT alone.
C9_Witness ==
  \E i \in 1..Len(history) :
    /\ history[i].op = "emit_priority_message"
    /\ history[i].interrupt
    /\ "nobroadcast" \notin history[i].flags
    /\ Len(EventsBy(i)) = 1
    /\ EventsBy(i)[1].kind = "MESSAGE_INTERRUPT"
    /\ Len(SentBy(i)) = 1

\* The descriptors of one kind among the register_* calls, in call order.
RECURSIVE RegisteredOfKind(_, _)
RegisteredOfKind(log, kind) ==
  IF log = <<>> THEN <<>>
  ELSE LET rest == RegisteredOfKind(SubSeq(log, 1, Len(log) - 1), kind)
           last == log[Len(log)]
       IN IF last.kind = kind THEN Append(rest, last.desc) ELSE rest

\* C10: each registry is exactly the descriptors of its kind in call order
\* (nothing removed, reordered, replaced or rejected, duplicates included), and
\* the latest register_* call returned the full list of its registry.
C10_AppendOnlyRegistries ==
  /\ pilot_attributes = RegisteredOfKind(regLog, "pilot_attribute")
  /\ ui_panels = RegisteredOfKind(regLog, "ui_panel")
  /\ general_settings = RegisteredOfKind(regLog, "general_setting")
  /\ regLog # <<>> =>
       returned = RegisteredOfKind(regLog, regLog[Len(regLog)].kind)

\* C10 witness: the same pilot attribute name was registered twice, with a
\* panel registered in between, and both attributes are in the list.
C10_Witness ==
  /\ Len(regLog) = 3
  /\ regLog[2].kind = "ui_panel"
  /\ Len(pilot_attributes) = 2
  /\ pilot_attributes[1].name = pilot_attributes[2].name
  /\ pilot_attributes[1].fieldtype # pilot_attributes[2].fieldtype
  /\ Len(ui_panels) = 1
  /\ returned = pilot_attributes

\* The positions of the settings assigned to panel `name`.
PanelPositions(settings, name) == {k \in 1..Len(settings) : settings[k].panel = name}

\* The j-th smallest member of a set of positions.
NthPosition(P, j) == CHOOSE k \in P : Cardinality({m \in P : m <= k}) = j

\* C11: get_panel_settings(p) returns exactly the settings whose panel is p,
\* each once per registration and in registration order, and the call leaves
\* the three registries as they were.
C11_PanelSettings ==
  /\ [](LET P == PanelPositions(panelQuery.settings, panelQuery.name) IN
        /\ Len(panelQuery.result) = Cardinality(P)
        /\ \A j \in 1..Len(panelQuery.result) :
             panelQuery.result[j] = panelQuery.settings[NthPosition(P, j)])
  /\ [][panelQuery' # panelQuery =>
          /\ panelQuery'.settings = general_settings
          /\ general_settings' = general_settings
          /\ pilot_attributes' = pilot_attributes
          /\ ui_panels' = ui_panels]_vars

\* C11 witness: two settings of panel n1 were registered around one of panel
\* n2, and get_panel_settings("n1") returned the two, in that order.
C11_Witness ==
  /\ panelQuery.name = "n1"
  /\ Len(general_settings) = 3
  /\ panelQuery.settings = general_settings
  /\ general_settings[1].panel = "n1"
  /\ general_settings[2].panel = "n2"
  /\ general_settings[3].panel = "n1"
  /\ general_settings[1] # general_settings[3]
  /\ panelQuery.result = <<general_settings[1], general_settings[3]>>

\* C12: in the heat_data payload every slot without a node index comes before
\* every slot with one, and the slots with a node index are in ascending
\* order, whatever the row order of the heat's nodes.
C12_NullsFirstAscending ==
  \A i, j \in 1..Len(slots) :
    i < j =>
      /\ slots[j].node_index = None => slots[i].node_index = None
      /\ (slots[i].node_index # None /\ slots[j].node_index # None)
           => slots[i].node_index[1] < slots[j].node_index[1]

\* The runs of the jar one call made, and those of them that are analyses.
InvocationsBy(i) == SelectSeq(invocations, LAMBDA v : v.call = i)
AnalysesBy(i) == SelectSeq(invocations, LAMBDA v : v.call = i /\ v.opt \in {"-t", "-r"})

\* The distinct non-zero frequencies of the first num_nodes nodes.
ProfilePositions == {k \in 1..Len(profile_freqs) : k <= num_nodes}
DistinctNonZero == {profile_freqs[k] : k \in ProfilePositions} \ {0}

\* The result field of an IMDTabler message.
ResultField(m) ==
  IF m.topic = "imdtabler_data" THEN m.payload.table_data ELSE m.payload.imd_rating

ProfileOps == {"emit_imdtabler_page", "emit_imdtabler_rating"}

\* C13 as stated: with fewer than 3 distinct non-zero frequencies the call
\* never runs the jar at all and every message it emits has a null result.
C13_NeverInvokedBelowThree ==
  \A i \in 1..Len(history) :
    /\ (history[i].op \in ProfileOps /\ Cardinality(DistinctNonZero) < 3) =>
         /\ InvocationsBy(i) = <<>>
         /\ \A k \in 1..Len(SentBy(i)) : ResultField(SentBy(i)[k]) = "None"
    /\ history[i].op = "emit_imdtabler_data" =>
         \A k \in 1..Len(InvocationsBy(i)) :
           LET args == InvocationsBy(i)[k].args IN
           Cardinality({args[a] : a \in 1..Len(args)} \ {"0"}) >= 3

\* C13: the analysis runs of the jar (-t, -r) always get three or more
\* frequencies.  With fewer than 3 distinct non-zero profile frequencies
\* emit_imdtabler_page and emit_imdtabler_rating run no analysis and every
\* message they emit has a null result; the only other run of the jar is the
\* one version query (-v) emit_imdtabler_page starts with.
\* emit_imdtabler_data given fewer than 3 entries runs nothing and emits a null
\* table_data.
C13_AnalysisSkippedBelowThree ==
  /\ \A k \in 1..Len(invocations) :
       /\ invocations[k].opt \in {"-t", "-r"} => Len(invocations[k].args) > 2
       /\ invocations[k].opt = "-v" =>
            /\ history[invocations[k].call].op = "emit_imdtabler_page"
            /\ InvocationsBy(invocations[k].call)[1] = invocations[k]
  /\ \A i \in 1..Len(history) :
       /\ Len(AnalysesBy(i)) <= 1
       /\ Len(InvocationsBy(i)) <= Len(AnalysesBy(i)) + 1
       /\ (history[i].op \in ProfileOps /\ Cardinality(DistinctNonZero) < 3) =>
            /\ AnalysesBy(i) = <<>>
            /\ \A k \in 1..Len(SentBy(i)) : ResultField(SentBy(i)[k]) = "None"
       /\ history[i].op = "emit_imdtabler_data" =>
            \A k \in 1..Len(SentBy(i)) :
              Len(SentBy(i)[k].payload.freq_list) < 3 =>
                /\ InvocationsBy(i) = <<>>
                /\ SentBy(i)[k].payload.table_data = "None"

\* C13 witness: emit_imdtabler_page on a profile with two distinct non-zero
\* frequencies ran the version query only and sent a null table_data.
C13_Witness ==
  /\ Len(history) = 1
  /\ history[1].op = "emit_imdtabler_page"
  /\ Cardinality(DistinctNonZero) = 2
  /\ invocations = <<Invocation(1, "-v", <<>>, TRUE)>>
  /\ Len(sent) = 1
  /\ sent[1].payload.table_data = "None"
  /\ sent[1].payload.version_str = "ver"
  /\ Len(sent[1].payload.freq_list) = 2

\* C14: the list an analysis run gets from emit_imdtabler_page or
\* emit_imdtabler_rating holds no zero and no value twice, holds the text of
\* every non-zero frequency of the first num_nodes nodes, and orders them by
\* their first position in the profile.
C14_DedupedZeroFiltered ==
  \A n \in 1..Len(invocations) :
    LET v == invocations[n]
        FirstPos(t) == CHOOSE k \in ProfilePositions :
                         /\ str(profile_freqs[k]) = t
                         /\ \A j \in ProfilePositions : j < k => str(profile_freqs[j]) # t
    IN
    (v.opt \in {"-t", "-r"} /\ history[v.call].op \in ProfileOps) =>
      /\ \A a, b \in 1..Len(v.args) : a # b => v.args[a] # v.args[b]
      /\ \A a \in 1..Len(v.args) : v.args[a] # "0"
      /\ {v.args[a] : a \in 1..Len(v.args)} = {str(f) : f \in DistinctNonZero}
      /\ \A a, b \in 1..Len(v.args) : a < b => FirstPos(v.args[a]) < FirstPos(v.args[b])

\* C14 witness: emit_imdtabler_page read four profile entries, one of them
\* a repeat or a zero, and the analysis ran on the three that remain.
C14_Witness ==
  /\ Len(history) = 1
  /\ history[1].op = "emit_imdtabler_page"
  /\ Cardinality(ProfilePositions) = 4
  /\ Len(invocations) = 2
  /\ invocations[2].opt = "-t"
  /\ Len(invocations[2].args) = 3
  /\ invocations[2].ok
  /\ Len(sent) = 1
  /\ sent[1].payload.table_data = "table"

\* C15: when a run of the jar fails, the call does not raise and still sends
\* exactly one message of its topic, with a null result field.
C15_FailureStillEmitsNull ==
  \A i \in 1..Len(history) :
    ((\E k \in 1..Len(InvocationsBy(i)) : ~InvocationsBy(i)[k].ok) /\ ~history[i].raised) =>
      /\ Len(SentBy(i)) = 1
      /\ ResultField(SentBy(i)[1]) = "None"

\* The pilots list is in the order of the configured key pair.
PilotsInKeyOrder(list) ==
  \A i, j \in 1..Len(list) :
    i < j =>
      LET p1 == IF pilotSort = "callsign" THEN StrRank(list[i].callsign)
                ELSE StrRank(list[i].name)
          p2 == IF pilotSort = "callsign" THEN StrRank(list[j].callsign)
                ELSE StrRank(list[j].name)
          s1 == IF pilotSort = "callsign" THEN StrRank(list[i].name)
                ELSE StrRank(list[i].callsign)
          s2 == IF pilotSort = "callsign" THEN StrRank(list[j].name)
                ELSE StrRank(list[j].callsign)
      IN p1 < p2 \/ (p1 = p2 /\ s1 <= s2)

\* C18: once emit_pilot_data has built its payload, the pilots list holds every
\* pilot of the database once, ordered by (callsign, name) when pilotSort is
\* 'callsign' and by (name, callsign) otherwise, ties on the first key broken
\* by the second, and sorting it again leaves it as it is.
C18_PilotsSorted ==
  (\E i \in 1..Len(history) : history[i].op = "emit_pilot_data") =>
    /\ Len(pilots_list) = Len(pilots)
    /\ \A k \in 1..Len(pilots) :
         Cardinality({j \in 1..Len(pilots_list) : pilots_list[j] = PilotData(pilots[k])}) = 1
    /\ PilotsInKeyOrder(pilots_list)
    /\ SortPilots(pilots_list, 1, <<>>, pilotSort) = pilots_list

\* C18 witness: three pilots sorted by callsign, two of them sharing a callsign
\* and told apart by name, came out in another order than their rows.
C18_Witness ==
  /\ Len(history) >= 1
  /\ history[1].op = "emit_pilot_data"
  /\ pilotSort = "callsign"
  /\ Len(pilots_list) = 3
  /\ pilots_list[1].callsign = pilots_list[2].callsign
  /\ pilots_list[1].name # pilots_list[2].name
  /\ pilots_list[3].callsign # pilots_list[1].callsign
  /\ pilots_list[1].pilot_id = 3
  /\ pilots_list[3].pilot_id = 1

\* C19: every pilot_data message of an emit_pilot_data call is followed at once
\* by a heat_data message of the same call, addressed to every connected
\* session, the caller included, whatever flags the call was given; a call
\* that does not raise sends both.
C19_HeatDataToAllAfterPilotData ==
  /\ \A k \in 1..Len(sent) :
       (sent[k].topic = "pilot_data" /\ history[sent[k].call].op = "emit_pilot_data") =>
         /\ k + 1 <= Len(sent)
         /\ sent[k + 1].call = sent[k].call
         /\ sent[k + 1].topic = "heat_data"
         /\ sent[k + 1].to = sent[k + 1].act
         /\ sent[k + 1].act = sent[k].act
         /\ history[sent[k].call].caller \in Sessions =>
              history[sent[k].call].caller \in sent[k + 1].to
  /\ \A i \in 1..Len(history) :
       (history[i].op = "emit_pilot_data" /\ ~history[i].raised) =>
         /\ Len(SentBy(i)) = 2
         /\ SentBy(i)[1].topic = "pilot_data"

\* C19 witness: s1 called emit_pilot_data with 'noself' while s1 and s2 were
\* connected: pilot_data went to s2 alone, heat_data after it to s1 and s2.
C19_Witness ==
  \E i \in 1..Len(history) :
    /\ history[i].op = "emit_pilot_data"
    /\ history[i].caller = "s1"
    /\ history[i].flags = {"noself"}
    /\ Len(SentBy(i)) = 2
    /\ SentBy(i)[1].topic = "pilot_data"
    /\ SentBy(i)[1].to = {"s2"}
    /\ SentBy(i)[2].topic = "heat_data"
    /\ SentBy(i)[2].to = {"s1", "s2"}

\* C20: emit_priority_message with 'nobroadcast' from a connected caller sends
\* its message to that caller alone and triggers no event, while
\* emit_first_pass_registered triggers exactly one RACE_FIRST_PASS event in
\* every addressing mode, 'nobroadcast' included.
C20_EventVersusAddressing ==
  \A i \in 1..Len(history) :
    /\ (/\ history[i].op = "emit_priority_message"
        /\ "nobroadcast" \in history[i].flags) =>
         /\ EventsBy(i) = <<>>
         /\ history[i].caller \in Sessions =>
              /\ Len(SentBy(i)) = 1
              /\ SentBy(i)[1].topic = "priority_message"
              /\ SentBy(i)[1].to = {history[i].caller}
    /\ history[i].op = "emit_first_pass_registered" =>
         /\ Len(EventsBy(i)) = 1
         /\ EventsBy(i)[1].kind = "RACE_FIRST_PASS"
         /\ EventsBy(i)[1].data.node_index = history[i].node

\* C20 witness: s1 emitted a first pass with 'nobroadcast' while s2 was also
\* connected: the message went to s1 alone and the event was triggered once.
C20_Witness ==
  \E i \in 1..Len(history) :
    /\ history[i].op = "emit_first_pass_registered"
    /\ history[i].caller = "s1"
    /\ "nobroadcast" \in history[i].flags
    /\ Len(SentBy(i)) = 1
    /\ SentBy(i)[1].act = {"s1", "s2"}
    /\ SentBy(i)[1].to = {"s1"}
    /\ Len(EventsBy(i)) = 1
    /\ EventsBy(i)[1].kind = "RACE_FIRST_PASS"

\* C16: in emit_split_pass_info and emit_pilot_data, when the build of one of
\* the two topics fails and the other's does not, the other topic's message is
\* sent all the same.
C16_OtherTopicStillSent ==
  \A i \in 1..Len(history) :
    LET h == history[i] IN
    /\ h.op = "emit_split_pass_info" =>
         /\ (h.build = "first_fail" /\ get_pilot(h.pilot_id) # None) =>
              Len(SentOn(i, "phonetic_split_call")) = 1
         /\ h.build = "second_fail" => Len(SentOn(i, "current_laps")) = 1
    /\ h.op = "emit_pilot_data" =>
         /\ h.build = "first_fail" => Len(SentOn(i, "heat_data")) = 1
         /\ (h.build = "second_fail" /\ ~PilotDataRaises(h.flags, h.caller)) =>
              Len(SentOn(i, "pilot_data")) = 1

\* C17: a builder asked about a pilot or heat that has no record still sends
\* its one message, with the fields taken from that record null:
\* emit_phonetic_split and emit_phonetic_data for an unknown pilot,
\* emit_current_leaderboard for a current heat without record, emit_race_list
\* and emit_current_heat for a slot whose pilot is gone.
C17_MissingEntityGivesNulls ==
  \A i \in 1..Len(history) :
    LET h == history[i]
        ms == SentBy(i)
    IN
    ~SnapshotRaises(h.flags, h.caller) =>
      /\ (h.op = "emit_phonetic_split" /\ get_pilot(h.pilot_id) = None) =>
           /\ Len(ms) = 1
           /\ ms[1].payload.pilot_name = None
      /\ (/\ h.op = "emit_current_leaderboard"
          /\ current_heat # "HEAT_ID_NONE"
          /\ get_heat(current_heat) = None) =>
           /\ Len(ms) = 1
           /\ ms[1].payload.displayname = None
      /\ (h.op = "emit_phonetic_data" /\ get_pilot(h.pilot_id) = None) =>
           /\ Len(ms) = 1
           /\ ms[1].payload.pilot_id = None
      /\ h.op = "emit_race_list" =>
           /\ Len(ms) = 1
           /\ \A k \in 1..Len(savedPilotRaces) :
                get_pilot(savedPilotRaces[k].pilot_id) = None =>
                  ms[1].payload.pilotraces[k].callsign = None
      /\ h.op = "emit_current_heat" =>
           /\ Len(ms) = 1
           /\ get_heat(current_heat) # None =>
                \A k \in 1..Len(heatNodes) :
                  (heatNodes[k].node_index # None /\ get_pilot(heatNodes[k].pilot_id) = None) =>
                    ms[1].payload.heatNodes[heatNodes[k].node_index[1]].callsign = None

====
